---- MODULE Spec2Model ----
(***************************************************************************)
(* Model of the python plugin's run pipeline: Start (run coordinator),     *)
(* ExecuteScript (executor) and generate_output (result envelope).         *)
(*                                                                         *)
(* The repository holds two variants of the pipeline:                      *)
(*   "python"  src/.cloud/docker/docker-compose.yaml  (package python)     *)
(*   "js"      src/unnamed/part_000                   (package js)         *)
(* Both are modelled; the variable `variant` selects the one that runs.    *)
(*                                                                         *)
(* Strings that the code inspects with strings.HasSuffix / Contains        *)
(* (paths and file names) are sequences of tokens; the string is the       *)
(* concatenation of its tokens.  File contents that the code reads with    *)
(* bufio.Scanner are sequences of characters.                              *)
(***************************************************************************)
EXTENDS Integers, Sequences, FiniteSets, TLC

\* ------------------------------------------------------------------ bounds
\* Largest number of files the external script leaves in the output directory.
MaxFiles == 3
\* Largest number of Message entries of the stored Chat row.
MaxMessages == 2

\* ------------------------------------------------------- strings and paths
\* strings.HasSuffix(s, suffix)
HasSuffix(s, suffix) ==
    /\ Len(suffix) <= Len(s)
    /\ SubSeq(s, Len(s) - Len(suffix) + 1, Len(s)) = suffix

\* strings.Contains(s, substr)
Contains(s, substr) ==
    \E i \in 1..(Len(s) - Len(substr) + 1) :
        SubSeq(s, i, i + Len(substr) - 1) = substr

\* path.Join / filepath.Join of a directory and one element
Join(dir, elem) == dir \o <<"/">> \o elem

\* analysisId.String()
AnalysisIdString == <<"id">>

\* The working directories a run is started with.  The second one is a
\* directory that is itself called "groups.json".
SourceCodeDirs == { <<"w">>, <<"groups", ".json">> }

scriptName == <<"script", ".py">>
PythonDir == <<"python">>

\* File names the external script may leave in the output directory, in the
\* byte order filepath.Glob returns them in (it sorts the directory's names):
\* a.txt < b.txt < groups.json < mygroups.json < out.png < result.json
ProducedNames ==
    << <<"a", ".txt">>, <<"b", ".txt">>, <<"groups", ".json">>,
       <<"my", "groups", ".json">>, <<"out", ".png">>, <<"result", ".json">> >>

\* All names of the output directory in Glob order (script.py sorts last).
GlobOrder == ProducedNames \o << scriptName >>

Range(s) == { s[i] : i \in 1..Len(s) }

\* ------------------------------------------------------------ file contents
\* A decoded JSON object is a set of <<key, value>> pairs with unique keys.
JsonObjects == { {}, {<<"k", 1>>}, {<<"k", 2>>} }
Malformed == [kind |-> "malformed", obj |-> {}]
JsonDoc(o) == [kind |-> "obj", obj |-> o]

\* Bytes of the text files the script may write.
TextBodies ==
    { <<>>, <<"a">>, <<"a", "\n", "b", "\n">>, <<"a", "\r", "\n">> }

\* A file: who wrote it ("run" = this run's process, "old" = an earlier run),
\* its bytes as text, and what encoding/json makes of its bytes.
File(origin, text, doc) == [origin |-> origin, text |-> text, doc |-> doc]

\* Contents the script may give to a file of the given name.
ContentsFor(name) ==
    IF HasSuffix(name, <<".txt">>)
    THEN { File("run", t, Malformed) : t \in TextBodies }
    ELSE IF HasSuffix(name, <<".json">>)
    THEN { File("run", <<>>, JsonDoc(o)) : o \in JsonObjects }
             \cup { File("run", <<>>, Malformed) }
    ELSE { File("run", <<>>, Malformed) }

ScriptFile == File("old", <<>>, Malformed)

\* Files an earlier run with the same identifier left in the data directory.
StaleData ==
    [n \in { AnalysisIdString \o <<".png">>, AnalysisIdString \o <<".txt">>,
             AnalysisIdString \o <<".json">> } |->
        IF n = AnalysisIdString \o <<".txt">>
        THEN File("old", <<"o", "\n">>, Malformed)
        ELSE IF n = AnalysisIdString \o <<".json">>
        THEN File("old", <<>>, JsonDoc({<<"k", 2>>}))
        ELSE File("old", <<>>, Malformed)]

EmptyDir == [n \in {} |-> ScriptFile]

\* What the script can write: at most MaxFiles of the produced names.
ScriptOutputs ==
    UNION { { f \in [S -> UNION { ContentsFor(n) : n \in S }] :
                \A n \in S : f[n] \in ContentsFor(n) } :
              S \in { T \in SUBSET Range(ProducedNames) : Cardinality(T) <= MaxFiles } }

\* Combined output of a failing process (cmd.CombinedOutput's bytes).
ProcessMessages == { "", "Traceback" }

\* ----------------------------------------------------------------- payload
\* The `data` value handed to generate_output: nil, or a decoded object.
NilData == [nil |-> TRUE, obj |-> {}]
ObjData(o) == [nil |-> FALSE, obj |-> o]

\* decoder.Decode(&data) of a well-formed object: encoding/json allocates the
\* map when it is nil and otherwise stores into the existing map, so keys of
\* an earlier decode survive unless the new document sets them again.
DecodeInto(data, o) ==
    ObjData({ p \in data.obj : \A q \in o : q[1] # p[1] } \cup o)

\* ------------------------------------------------------------ text reading
dropCR(d) ==
    IF Len(d) > 0 /\ d[Len(d)] = "\r" THEN SubSeq(d, 1, Len(d) - 1) ELSE d

\* The tokens bufio.Scanner (ScanLines) yields for the bytes d.
RECURSIVE ScanLines(_)
ScanLines(d) ==
    IF d = <<>> THEN <<>>
    ELSE LET nl == { i \in 1..Len(d) : d[i] = "\n" }
         IN  IF nl = {} THEN << dropCR(d) >>
             ELSE LET i == CHOOSE j \in nl : \A k \in nl : j <= k
                  IN  << dropCR(SubSeq(d, 1, i - 1)) >>
                          \o ScanLines(SubSeq(d, i + 1, Len(d)))

\* buffer.WriteString(scanner.Text() + "\n") for every token
RECURSIVE WriteLines(_)
WriteLines(lines) ==
    IF lines = <<>> THEN <<>>
    ELSE Head(lines) \o <<"\n">> \o WriteLines(Tail(lines))

ReadText(d) == WriteLines(ScanLines(d))

\* ---------------------------------------------------------- result envelope
\* generate_output (the timing fields come from output_generator and are not
\* part of the model).
generate_output(imageName, data, text, status, errors) ==
    [Result |-> [Image |-> imageName, Data |-> data, Text |-> text],
     AnalysisInfo |-> [Errors |-> errors, Status |-> status]]

PublicDescription == "The script failed to execute"

\* Faulty variant: the captured output is dropped.
codeclarity_error_noOutput(message) ==
    [Private |-> [Description |-> "", Type |-> "GENERIC_ERROR"],
     Public |-> [Description |-> PublicDescription, Type |-> "GENERIC_ERROR"]]

\* The exceptionManager.Error built when the process fails.
codeclarity_error(message) ==
    [Private |-> [Description |-> message, Type |-> "GENERIC_ERROR"],
     Public |-> [Description |-> PublicDescription, Type |-> "GENERIC_ERROR"]]

NoOutput == generate_output(<<"none">>, NilData, <<>>, "NONE", <<>>)

\* -------------------------------------------------------- artifact scanning
\* filepath.Glob(outputPath + "/*"): the names present, sorted.
Glob(dir) ==
    LET Present(n) == n \in DOMAIN dir
    IN  SelectSeq(GlobOrder, Present)

\* The executor's locals and the two directories while the loops run.
ScanState(outFiles, dataFiles) ==
    [out |-> outFiles, data |-> dataFiles, image |-> <<>>, text |-> <<>>,
     jsondata |-> NilData, moved |-> {}, decoded |-> {}, panic |-> FALSE]

\* os.Rename(f, newName); its error is not looked at.  The move happens when
\* canMove holds (the data directory exists and renaming into it works).
Rename(st, n, newName, canMove) ==
    IF canMove /\ n \in DOMAIN st.out
    THEN [st EXCEPT !.out = [m \in DOMAIN st.out \ {n} |-> st.out[m]],
                    !.data = [m \in DOMAIN st.data \cup {newName} |->
                                 IF m = newName THEN st.out[n] ELSE st.data[m]],
                    !.moved = @ \cup {n}]
    ELSE st

\* Body of the loop for a .png file
PngStep(st, n, f, canMove) ==
    IF HasSuffix(f, <<".png">>)
    THEN [Rename(st, n, AnalysisIdString \o <<".png">>, canMove)
            EXCEPT !.image = AnalysisIdString]
    ELSE st

\* Body of the loop for a .txt file: move, open the new name, read the lines.
TxtStep(st, n, f, canMove) ==
    IF HasSuffix(f, <<".txt">>)
    THEN LET newName == AnalysisIdString \o <<".txt">>
             r == Rename(st, n, newName, canMove)
         IN  IF newName \notin DOMAIN r.data
             THEN [r EXCEPT !.panic = TRUE]
             ELSE [r EXCEPT !.text = ReadText(r.data[newName].text)]
    ELSE st

\* Body of the .json loop of the "python" variant: skip, or move; no decoding.
JsonStepPython(st, n, f, canMove) ==
    IF Contains(f, <<"groups", ".json">>)
    THEN st
    ELSE IF HasSuffix(f, <<".json">>)
         THEN Rename(st, n, AnalysisIdString \o <<".json">>, canMove)
         ELSE st

\* Body of the .json loop of the "js" variant: move, open, decode.
JsonStepJs(st, n, f, canMove) ==
    IF HasSuffix(f, <<".json">>)
    THEN LET newName == AnalysisIdString \o <<".json">>
             r == Rename(st, n, newName, canMove)
         IN  IF newName \notin DOMAIN r.data
             THEN [r EXCEPT !.panic = TRUE]
             ELSE IF r.data[newName].doc.kind # "obj"
             THEN [r EXCEPT !.panic = TRUE, !.decoded = @ \cup {n}]
             ELSE [r EXCEPT !.jsondata = DecodeInto(@, r.data[newName].doc.obj),
                            !.decoded = @ \cup {n}]
    ELSE st

LoopBody(kind, st, n, f, canMove) ==
    CASE kind = "png" -> PngStep(st, n, f, canMove)
      [] kind = "txt" -> TxtStep(st, n, f, canMove)
      [] kind = "pngtxt" -> TxtStep(PngStep(st, n, f, canMove), n, f, canMove)
      [] kind = "json_python" -> JsonStepPython(st, n, f, canMove)
      [] kind = "json_js" -> JsonStepJs(st, n, f, canMove)

\* for _, f := range files { ... }; a panic ends the run.
RECURSIVE Loop(_, _, _, _, _)
Loop(kind, st, files, outputPath, canMove) ==
    IF files = <<>> \/ st.panic THEN st
    ELSE Loop(kind,
              LoopBody(kind, st, Head(files), Join(outputPath, Head(files)), canMove),
              Tail(files), outputPath, canMove)

\* The scan of the "python" variant: one listing for .png and .txt, a second
\* listing for .json.
ScanPython(st, outputPath, canMove) ==
    LET s1 == Loop("pngtxt", st, Glob(st.out), outputPath, canMove)
    IN  Loop("json_python", s1, Glob(s1.out), outputPath, canMove)

\* The scan of the "js" variant: a fresh listing for each of the three loops.
ScanJs(st, outputPath, canMove) ==
    LET s1 == Loop("png", st, Glob(st.out), outputPath, canMove)
        s2 == Loop("txt", s1, Glob(s1.out), outputPath, canMove)
    IN  Loop("json_js", s2, Glob(s2.out), outputPath, canMove)

Scan(v, st, outputPath, canMove) ==
    IF v = "python" THEN ScanPython(st, outputPath, canMove)
    ELSE ScanJs(st, outputPath, canMove)

\* ------------------------------------------------------------------- state
VARIABLES
    variant,        \* which of the two source variants runs
    sourceCodeDir,  \* Start's sourceCodeDir argument
    pc,             \* position of the run inside Start / ExecuteScript
    analysisFound,  \* the analysis row exists in the database
    config,         \* shape of analysis.Config
    dbChat,         \* the persisted Chat row of the project (or none)
    chat,           \* Start's local `chat`
    outDir,         \* files of <sourceCodeDir>/python
    dataExists,     \* <sourceCodeDir>/data exists
    dataFiles,      \* files of <sourceCodeDir>/data
    fault,          \* filesystem fault of this run: none, mkdir or rename fails
    out,            \* the Output built by ExecuteScript
    returned,       \* Start has returned `out` to its caller
    procInvoked,    \* python3 has been started
    message,        \* the combined output captured from a failed process
    written,        \* what the process wrote in this run
    moved,          \* names renamed into the data directory by this run
    decoded,        \* names whose relocated file was handed to the decoder
    dbWrites        \* slot 0 of every Chat row update executed, in order

vars == << variant, sourceCodeDir, pc, analysisFound, config, dbChat, chat,
           outDir, dataExists, dataFiles, fault, out, returned, procInvoked,
           message, written, moved, decoded, dbWrites >>

\* types.Message (the fields the pipeline touches, and Request to tell the
\* entries apart).  Result and Data are the fields the "js" variant assigns.
Message(i) ==
    [Request |-> i, Text |-> <<"t", "\n">>, JSON |-> NilData, Image |-> <<>>,
     Result |-> <<>>, Data |-> NilData]

NoChat == [exists |-> FALSE, Messages |-> <<>>]
ChatRows ==
    { [exists |-> TRUE, Messages |-> [i \in 1..k |-> Message(i)]] :
        k \in 0..MaxMessages }

Configs == { "ok", "no_python", "no_project" }

Init ==
    /\ variant \in { "python", "js" }
    /\ sourceCodeDir \in SourceCodeDirs
    /\ pc = "fetch"
    /\ analysisFound \in BOOLEAN
    /\ config \in Configs
    /\ dbChat \in { NoChat } \cup ChatRows
    /\ chat = [Messages |-> <<>>]
    /\ outDir \in { EmptyDir, [n \in { scriptName } |-> ScriptFile] }
    /\ \/ dataExists = FALSE /\ dataFiles = EmptyDir
       \/ dataExists = TRUE /\ dataFiles = StaleData
    /\ fault \in { "none", "mkdir", "rename" }
    /\ out = NoOutput
    /\ returned = FALSE
    /\ procInvoked = FALSE
    /\ message = ""
    /\ written = EmptyDir
    /\ moved = {}
    /\ decoded = {}
    /\ dbWrites = <<>>

\* --------------------------------------------------------------------- Start
\* Faulty variant: the configuration is used without the assertions.
ConfigOk_unchecked(c) == TRUE

\* The two type assertions on analysis.Config succeed.
ConfigOk(c) == c = "ok"

\* Select the analysis row by primary key; panic when the scan fails.
FetchAnalysis ==
    /\ pc = "fetch"
    /\ pc' = IF analysisFound THEN "config" ELSE "panic"
    /\ UNCHANGED << variant, sourceCodeDir, analysisFound, config, dbChat, chat,
                    outDir, dataExists, dataFiles, fault, out, returned,
                    procInvoked, message, written, moved, decoded, dbWrites >>

\* analysis.Config["python"].(map[string]interface{}) and
\* python_config["project"].(string); either assertion failing panics.
ReadConfig ==
    /\ pc = "config"
    /\ pc' = IF ConfigOk(config) THEN "lookup" ELSE "panic"
    /\ UNCHANGED << variant, sourceCodeDir, analysisFound, config, dbChat, chat,
                    outDir, dataExists, dataFiles, fault, out, returned,
                    procInvoked, message, written, moved, decoded, dbWrites >>

\* Faulty variant: the marker is never assigned.
StampMarker_none(v, m) == m

\* The marker assignment: Messages[0].Image in "python", .Result in "js".
StampMarker(v, m) ==
    IF v = "python" THEN [m EXCEPT !.Image = AnalysisIdString]
    ELSE [m EXCEPT !.Result = AnalysisIdString]

\* Select the Chat row of the project.  When it is found (err == nil): stamp
\* the marker into Messages[0] and update the row; panic when the update
\* fails (and when Messages is empty: index out of range).  When it is not
\* found the block is skipped.
LookupChat ==
    /\ pc = "lookup"
    /\ IF ~dbChat.exists
       THEN /\ pc' = "exec"
            /\ UNCHANGED << chat, dbChat, dbWrites >>
       ELSE IF Len(dbChat.Messages) = 0
       THEN /\ chat' = [Messages |-> dbChat.Messages]
            /\ pc' = "panic"
            /\ UNCHANGED << dbChat, dbWrites >>
       ELSE LET stamped == [dbChat.Messages EXCEPT
                               ![1] = StampMarker(variant, @)]
            IN  /\ chat' = [Messages |-> stamped]
                /\ \E ok \in BOOLEAN :
                     IF ok
                     THEN /\ dbChat' = [dbChat EXCEPT !.Messages = stamped]
                          /\ dbWrites' = Append(dbWrites, stamped[1])
                          /\ pc' = "exec"
                     ELSE /\ pc' = "panic"
                          /\ UNCHANGED << dbChat, dbWrites >>
    /\ UNCHANGED << variant, sourceCodeDir, analysisFound, config, outDir,
                    dataExists, dataFiles, fault, out, returned, procInvoked,
                    message, written, moved, decoded >>

\* ------------------------------------------------------------- ExecuteScript
\* Faulty variant: the result of the Glob is not looked at.
ScriptFound_unchecked(dir) == TRUE

\* filepath.Glob(scriptPath) matched: len(files) != 0
ScriptFound(dir) == scriptName \in DOMAIN dir

\* Glob the script path; return FAILURE when it is missing, else create the
\* two directories (errors of MkdirAll are not looked at).
LocateScript ==
    /\ pc = "exec"
    /\ IF ~ScriptFound(outDir)
       THEN /\ out' = generate_output(<<>>, NilData, <<>>, "FAILURE", <<>>)
            /\ pc' = "writeback"
            /\ UNCHANGED dataExists
       ELSE /\ dataExists' = (dataExists \/ fault # "mkdir")
            /\ pc' = "run"
            /\ UNCHANGED out
    /\ UNCHANGED << variant, sourceCodeDir, analysisFound, config, dbChat, chat,
                    outDir, dataFiles, fault, returned, procInvoked, message,
                    written, moved, decoded, dbWrites >>

\* cmd.CombinedOutput() returns an error: one error, FAILURE.
ProcessFails ==
    /\ pc = "run"
    /\ procInvoked' = TRUE
    /\ \E m \in ProcessMessages :
         /\ message' = m
         /\ out' = generate_output(<<>>, NilData, <<>>, "FAILURE",
                                   << codeclarity_error(m) >>)
    /\ pc' = "writeback"
    /\ UNCHANGED << variant, sourceCodeDir, analysisFound, config, dbChat, chat,
                    outDir, dataExists, dataFiles, fault, returned, written,
                    moved, decoded, dbWrites >>

\* cmd.CombinedOutput() succeeds; the script has written its files.
ProcessSucceeds ==
    /\ pc = "run"
    /\ procInvoked' = TRUE
    /\ \E w \in ScriptOutputs :
         /\ written' = w
         /\ outDir' = [n \in DOMAIN outDir \cup DOMAIN w |->
                          IF n \in DOMAIN w THEN w[n] ELSE outDir[n]]
    /\ pc' = "scan"
    /\ UNCHANGED << variant, sourceCodeDir, analysisFound, config, dbChat, chat,
                    dataExists, dataFiles, fault, out, returned, message, moved,
                    decoded, dbWrites >>

\* The loops over the output directory and the SUCCESS output.
ScanArtifacts ==
    /\ pc = "scan"
    /\ LET res == Scan(variant, ScanState(outDir, dataFiles),
                       Join(sourceCodeDir, PythonDir),
                       dataExists /\ fault # "rename")
       IN  /\ outDir' = res.out
           /\ dataFiles' = res.data
           /\ moved' = res.moved
           /\ decoded' = res.decoded
           /\ IF res.panic
              THEN pc' = "panic" /\ UNCHANGED out
              ELSE /\ out' = generate_output(res.image, res.jsondata, res.text,
                                             "SUCCESS", <<>>)
                   /\ pc' = "writeback"
    /\ UNCHANGED << variant, sourceCodeDir, analysisFound, config, dbChat, chat,
                    dataExists, fault, returned, procInvoked, message, written,
                    dbWrites >>

\* ------------------------------------------------------- Start, second half
\* Faulty variant: the image reference is not copied.
CopyResult_noImage(v, m, o) ==
    IF v = "python"
    THEN [m EXCEPT !.Text = o.Result.Text, !.JSON = o.Result.Data]
    ELSE [m EXCEPT !.Text = o.Result.Text, !.Data = o.Result.Data]

\* The three assignments to Messages[0] after ExecuteScript returned.
CopyResult(v, m, o) ==
    IF v = "python"
    THEN [m EXCEPT !.Text = o.Result.Text, !.Image = o.Result.Image,
                   !.JSON = o.Result.Data]
    ELSE [m EXCEPT !.Image = o.Result.Image, !.Text = o.Result.Text,
                   !.Data = o.Result.Data]

\* Copy the result into Messages[0] (index out of range panics when the local
\* chat has no message), update the row, panic when the update fails, return.
WriteBack ==
    /\ pc = "writeback"
    /\ IF Len(chat.Messages) = 0
       THEN /\ pc' = "panic"
            /\ UNCHANGED << chat, dbChat, dbWrites, returned >>
       ELSE LET copied == [chat.Messages EXCEPT
                              ![1] = CopyResult(variant, @, out)]
            IN  /\ chat' = [Messages |-> copied]
                /\ \E ok \in BOOLEAN :
                     IF ok
                     THEN /\ dbChat' = [dbChat EXCEPT !.Messages = copied]
                          /\ dbWrites' = Append(dbWrites, copied[1])
                          /\ returned' = TRUE
                          /\ pc' = "done"
                     ELSE /\ pc' = "panic"
                          /\ UNCHANGED << dbChat, dbWrites, returned >>
    /\ UNCHANGED << variant, sourceCodeDir, analysisFound, config, outDir,
                    dataExists, dataFiles, fault, out, procInvoked, message,
                    written, moved, decoded >>

Next ==
    \/ FetchAnalysis
    \/ ReadConfig
    \/ LookupChat
    \/ LocateScript
    \/ ProcessFails
    \/ ProcessSucceeds
    \/ ScanArtifacts
    \/ WriteBack

Spec == Init /\ [][Next]_vars

TypeOK ==
    /\ pc \in { "fetch", "config", "lookup", "exec", "run", "scan",
                "writeback", "done", "panic" }
    /\ returned \in BOOLEAN
    /\ Len(dbWrites) <= 2

\* -------------------------------------------------------------- properties
IdPng == AnalysisIdString \o <<".png">>
IdTxt == AnalysisIdString \o <<".txt">>
groupsJson == <<"groups", ".json">>

ExecutorReturned == out # NoOutput
Succeeded == out.AnalysisInfo.Status = "SUCCESS"
Failed == out.AnalysisInfo.Status = "FAILURE"
NoArtifacts ==
    /\ out.Result.Image = <<>>
    /\ out.Result.Text = <<>>
    /\ out.Result.Data = NilData

\* C1: when <workingDir>/python/script.py does not exist, ExecuteScript
\* returns FAILURE with no errors, empty image, empty text and nil payload,
\* and the external process is never invoked.
C1_MissingScript ==
    scriptName \notin DOMAIN outDir =>
        /\ ~procInvoked
        /\ ExecutorReturned =>
             /\ Failed
             /\ out.AnalysisInfo.Errors = <<>>
             /\ NoArtifacts

C1_Witness ==
    /\ scriptName \notin DOMAIN outDir
    /\ ExecutorReturned
    /\ pc = "done"

\* C2 (as claimed): when the external process fails, the outcome is FAILURE
\* with exactly one error whose public description is "the script failed to
\* execute" and whose private description is the captured output, with no
\* artifacts; no FAILURE outcome carries an artifact.
C2_AsClaimed ==
    /\ (procInvoked /\ Failed) =>
          /\ Len(out.AnalysisInfo.Errors) = 1
          /\ out.AnalysisInfo.Errors[1].Public.Description
                = "the script failed to execute"
          /\ out.AnalysisInfo.Errors[1].Private.Description = message
    /\ Failed => NoArtifacts

\* C2 (amended): as above, the public description being
\* "The script failed to execute" (capital T).
C2_ProcessFailure ==
    /\ (procInvoked /\ Failed) =>
          /\ Len(out.AnalysisInfo.Errors) = 1
          /\ out.AnalysisInfo.Errors[1].Public.Description
                = "The script failed to execute"
          /\ out.AnalysisInfo.Errors[1].Private.Description = message
    /\ Failed => NoArtifacts

C2_Witness ==
    /\ procInvoked
    /\ Failed
    /\ message = "Traceback"
    /\ pc = "done"

\* C3: when the lookup of the Chat row misses, Start raises no error after
\* the Executor has produced its outcome: it never terminates fatally then
\* (and so returns the outcome).
C3_LookupMissReturns ==
    (~dbChat.exists /\ ExecutorReturned) => pc # "panic"

\* The structured-data files of this run: names ending in .json other than
\* the file literally named groups.json.
StructuredFiles ==
    { n \in DOMAIN written : HasSuffix(n, <<".json">>) /\ n # groupsJson }

NoFault == fault = "none"

\* C4: after a successful run (here: one without a filesystem fault) whose
\* output directory contains a structured-data file, the returned payload is
\* the decoded content of such a file; the payload is nil only when there
\* was no such file.
C4_PayloadIsDecodedFile ==
    (Succeeded /\ NoFault) =>
        /\ StructuredFiles # {} =>
             \E n \in StructuredFiles :
                /\ written[n].doc.kind = "obj"
                /\ out.Result.Data = ObjData(written[n].doc.obj)
        /\ out.Result.Data = NilData => StructuredFiles = {}

\* C5: in a successful run (here: one without a filesystem fault) a file of
\* the output directory is moved to <analysisId>.json exactly when its name
\* ends in .json and is not literally groups.json; groups.json stays in
\* place and is never decoded.
C5_MovedIffStructured ==
    (Succeeded /\ NoFault) =>
        /\ \A n \in DOMAIN written :
              (HasSuffix(n, <<".json">>) /\ n \in moved) <=> n \in StructuredFiles
        /\ groupsJson \in DOMAIN written =>
              /\ groupsJson \in DOMAIN outDir
              /\ groupsJson \notin decoded

\* The field of a message that carries the in-progress marker.
MarkerOf(m) == IF variant = "python" THEN m.Image ELSE m.Result

\* C6: when the Chat row is found, the marker is persisted in slot 0 before
\* the Executor starts, and no other update happens until the write-back:
\* from the start of the Executor to the write-back the row has been
\* updated exactly once, and its slot 0 holds the analysis identifier.
C6_MarkerBeforeExecutor ==
    (dbChat.exists /\ (pc \in { "exec", "run", "scan", "writeback" } \/ procInvoked)) =>
        /\ Len(dbWrites) >= 1
        /\ MarkerOf(dbWrites[1]) = AnalysisIdString
        /\ pc \in { "exec", "run", "scan", "writeback" } =>
             /\ Len(dbWrites) = 1
             /\ Len(dbChat.Messages) >= 1
             /\ dbChat.Messages[1] = dbWrites[1]

C6_Witness ==
    /\ dbChat.exists
    /\ pc = "scan"
    /\ procInvoked

\* The payload field of a message the write-back targets.
PayloadOf(m) == IF variant = "python" THEN m.JSON ELSE m.Data

\* C7: when Start returns, slot 0 of the persisted row has image, text and
\* payload equal to the returned outcome's (after FAILURE the image field is
\* empty again), and all other entries are as they were.
C7_WriteBack ==
    returned =>
        /\ dbChat.exists
        /\ Len(dbChat.Messages) >= 1
        /\ dbChat.Messages[1].Image = out.Result.Image
        /\ dbChat.Messages[1].Text = out.Result.Text
        /\ PayloadOf(dbChat.Messages[1]) = out.Result.Data
        /\ Failed => dbChat.Messages[1].Image = <<>>
        /\ \A i \in 2..Len(dbChat.Messages) : dbChat.Messages[i] = Message(i)
        /\ dbChat.Messages[1].Request = 1

C7_Witness ==
    /\ returned
    /\ Failed
    /\ variant = "python"
    /\ Len(dbChat.Messages) = 2

\* C8: every file a returned outcome references is in the data directory:
\* a non-empty image reference means <id>.png is there and was produced by
\* this run, a non-empty text means it was read from this run's <id>.txt.
C8_ReferencedFilesMoved ==
    Succeeded =>
        /\ out.Result.Image # <<>> =>
              /\ IdPng \in DOMAIN dataFiles
              /\ dataFiles[IdPng].origin = "run"
        /\ out.Result.Text # <<>> =>
              /\ IdTxt \in DOMAIN dataFiles
              /\ dataFiles[IdTxt].origin = "run"
              /\ out.Result.Text = ReadText(dataFiles[IdTxt].text)

\* The update of the marker was attempted and failed.
MarkerPersistFailed ==
    /\ dbChat.exists
    /\ Len(dbChat.Messages) >= 1
    /\ dbWrites = <<>>
    /\ pc \notin { "fetch", "config", "lookup" }

\* C9: a failed analysis fetch, a malformed configuration or a failed marker
\* update ends Start fatally before the process is invoked, before any file
\* is moved and without an outcome; Start returns only after the final
\* update succeeded.
C9_FatalBeforeExecutor ==
    /\ (~analysisFound \/ config # "ok" \/ MarkerPersistFailed) =>
          /\ ~procInvoked
          /\ moved = {}
          /\ ~ExecutorReturned
          /\ ~returned
          /\ pc \in { "fetch", "config", "panic" }
    /\ returned =>
          /\ Len(dbWrites) = 2
          /\ dbWrites[2] = dbChat.Messages[1]
    /\ pc = "panic" => ~returned

C9_Witness ==
    /\ analysisFound
    /\ config = "ok"
    /\ MarkerPersistFailed
    /\ pc = "panic"

\* The .txt files of this run, and the last of them in scan order.
TextFiles == SelectSeq(Glob(written), LAMBDA n : HasSuffix(n, <<".txt">>))

\* The bytes d with every line followed by a newline.
NewlineTerminated(d) ==
    IF d = <<>> \/ d[Len(d)] = "\n" THEN d ELSE d \o <<"\n">>

\* C10: after a successful run with one or more .txt files (here: the last
\* one in scan order holding no carriage return) the text is the content of
\* that last file, each line followed by a newline; <analysisId>.txt holds
\* that file's content; no .txt file remains in the output directory.
C10_LastTextWins ==
    (/\ Succeeded
     /\ TextFiles # <<>>
     /\ "\r" \notin Range(written[TextFiles[Len(TextFiles)]].text)) =>
        LET last == written[TextFiles[Len(TextFiles)]]
        IN  /\ out.Result.Text = NewlineTerminated(last.text)
            /\ IdTxt \in DOMAIN dataFiles
            /\ dataFiles[IdTxt] = last
            /\ \A n \in DOMAIN outDir : ~HasSuffix(n, <<".txt">>)

====
